---- MODULE Spec2Model ----
(***************************************************************************)
(* Contiguous physical frame allocator (ContFramePool) of MP2.             *)
(*                                                                         *)
(* The model follows src/MP2/cont_frame_pool.C: a registry of pools kept  *)
(* as a doubly linked list sorted by base_frame_no, each pool owning a     *)
(* bit-packed bitmap (two bits per frame, four frames per byte), and the   *)
(* operations get_frames, mark_inaccessible and the static release_frames. *)
(* Pool objects are numbered 1, 2, ... in construction order; NULL is the  *)
(* null pointer.                                                           *)
(***************************************************************************)
EXTENDS Integers, Sequences, FiniteSets, TLC

\* ------------------------------------------------------------------ bounds
\* Pools that may be constructed.
MaxPools == 2
\* Absolute frame numbers used by pools are 0 .. MaxFrame.
MaxFrame == 3
\* Largest n_frames of a constructed pool: all the frames there are.
MaxPoolFrames == MaxFrame + 1
\* Pools that may be constructed where only the registry is looked at.
MaxRegistryPools == 4
\* Bytes of the info frame that are modelled (4 bitmap entries per byte).
BitmapBytes == 2

\* ------------------------------------------------------- program constants
FRAME_SIZE == 4096
NULL == 0

\* Contents of an info frame before the constructor initialises it: the
\* memory is whatever it was (here every byte 0xAA, each entry reading as
\* HeadOfSequence, or every byte 0xFF, each entry the reserved pattern).
GarbageBytes == {170, 255}

\* ---------------------------------------------------------- bit arithmetic
\* The two-bit field at bit offset shift of an unsigned char: (byte >> shift) & 0x3
Bits2(byte, shift) == (byte \div (2 ^ shift)) % 4

\* byte & ~(0x3 << shift): the field's two bits cleared, the others kept
ClearBits2(byte, shift) == byte - Bits2(byte, shift) * (2 ^ shift)

\* a | b of two two-bit values
Or2(a, b) ==
  (IF a % 2 = 1 \/ b % 2 = 1 THEN 1 ELSE 0)
    + 2 * (IF a \div 2 = 1 \/ b \div 2 = 1 THEN 1 ELSE 0)

\* byte | (v << shift), v a two-bit value
OrBits2(byte, v, shift) ==
  ClearBits2(byte, shift) + Or2(Bits2(byte, shift), v) * (2 ^ shift)

\* The encoding of the enum FrameState in set_state's switch.
Encode(_state) ==
  CASE _state = "Free" -> 0
    [] _state = "Used" -> 1
    [] _state = "HoS" -> 2

\* The raw two-bit field of frame _frame_no in bitmap bm.
Field(bm, _frame_no) ==
  LET bitmap_index == _frame_no \div 4
      shift == 2 * (_frame_no % 4)
  IN  Bits2(bm[bitmap_index], shift)

get_state(bm, _frame_no) ==
  LET current_state == Field(bm, _frame_no)
  IN  CASE current_state = 0 -> "Free"
        [] current_state = 1 -> "Used"
        [] current_state = 2 -> "HoS"
        [] OTHER -> "Free"

\* set_state without the line bitmap[bitmap_index] &= reset_mask
set_state_NoResetMask(bm, _frame_no, _state) ==
  LET bitmap_index == _frame_no \div 4
      shift == 2 * (_frame_no % 4)
  IN  [bm EXCEPT ![bitmap_index] = OrBits2(bm[bitmap_index], Encode(_state), shift)]

set_state(bm, _frame_no, _state) ==
  LET bitmap_index == _frame_no \div 4
      shift == 2 * (_frame_no % 4)
      masked == ClearBits2(bm[bitmap_index], shift)
  IN  [bm EXCEPT ![bitmap_index] = OrBits2(masked, Encode(_state), shift)]

\* ------------------------------------------------------ needed_info_frames
\* An unsigned 32-bit value is kept as two 16-bit halves, [hi, lo] standing
\* for hi * 2^16 + lo, so that the arithmetic modulo 2^32 of unsigned int
\* (and of unsigned long on the 32-bit target) can be computed exactly.
Half == 2 ^ 16

Word(n) == [hi |-> (n \div Half) % Half, lo |-> n % Half]

\* a <= b of two such values
WordLeq(a, b) == a.hi < b.hi \/ (a.hi = b.hi /\ a.lo <= b.lo)

\* w * 2 in 32 bits
WordTimes2(w) ==
  LET lo2 == w.lo * 2
  IN  [hi |-> (w.hi * 2 + lo2 \div Half) % Half, lo |-> lo2 % Half]

\* w + k in 32 bits, 0 <= k < 2^16
WordPlus(w, k) ==
  LET lo2 == w.lo + k
  IN  [hi |-> (w.hi + lo2 \div Half) % Half, lo |-> lo2 % Half]

\* w / d, d a divisor of 2^16
WordDiv(w, d) == w.hi * (Half \div d) + w.lo \div d

\* needed_info_frames with  + FRAME_SIZE * 8  in place of  + FRAME_SIZE * 8 - 1
needed_info_frames_NoMinusOne(_n_frames) ==
  LET bits_required == WordTimes2(_n_frames)
  IN  WordDiv(WordPlus(WordPlus(bits_required, (FRAME_SIZE * 8) - 1), 1), FRAME_SIZE * 8)

\* unsigned int bits_required = _n_frames * 2;
\* unsigned int info_frames = (bits_required + FRAME_SIZE*8 - 1) / (FRAME_SIZE*8)
\* _n_frames is given as its two halves.
needed_info_frames(_n_frames) ==
  LET bits_required == WordTimes2(_n_frames)
  IN  WordDiv(WordPlus(bits_required, (FRAME_SIZE * 8) - 1), FRAME_SIZE * 8)

\* ------------------------------------------------------------------- state
VARIABLES
  pools,   \* pool objects: base_frame_no, nframes, info_frame_no, prev, next, bitmap
  head,    \* ContFramePool::head
  last,    \* client: its last call: the name, the argument (get_frames:
           \* _n_frames, release_frames: _first_frame_no) and the result
  fill,    \* the byte every info frame holds before its constructor runs
  phase,   \* "setup": any caller; "client": a client that keeps its runs
  held,    \* client: runs [f, n] get_frames returned (f # 0), not yet released
  snap,    \* client: the bitmaps before its first get_frames (<<>>: a call
           \* returned 0 although it allocated, the client lost track)
  stray,   \* release_frames was called with a frame no client held
  hole,    \* the range [b, b + n) of pool p marked inaccessible as a memory
           \* hole (n = 0: none yet)
  call     \* the get_frames or release_frames call that is executing, with
           \* its local variables (op = "idle": none)

vars == <<pools, head, last, fill, phase, held, snap, stray, hole, call>>

PoolIds == 1..Len(pools)

InRange(p, f) ==
  pools[p].base_frame_no <= f /\ f < pools[p].base_frame_no + pools[p].nframes

\* ------------------------------------------------------------- constructor
\* The constructor linking every new pool in front of the list.
Insert_AtHead(ps, hd, this) ==
  IF hd = NULL THEN [pools |-> ps, head |-> this]
  ELSE [pools |-> [ps EXCEPT ![this].next = hd, ![hd].prev = this], head |-> this]

RECURSIVE InsertWalk(_, _, _)
InsertWalk(ps, tmp, base) ==
  IF ps[tmp].base_frame_no < base /\ ps[tmp].next # NULL
    THEN InsertWalk(ps, ps[tmp].next, base)
    ELSE tmp

\* The constructor inserting before tmp without tmp->prev->next = this.
Insert_NoForwardLink(ps, hd, this) ==
  IF hd = NULL THEN [pools |-> ps, head |-> this]
  ELSE
    LET base == ps[this].base_frame_no
        tmp == InsertWalk(ps, hd, base)
    IN  IF ps[tmp].base_frame_no < base
          THEN
            LET p1 == [ps EXCEPT ![this].prev = tmp, ![this].next = ps[tmp].next]
                p2 == IF ps[tmp].next # NULL
                        THEN [p1 EXCEPT ![ps[tmp].next].prev = this]
                        ELSE p1
            IN  [pools |-> [p2 EXCEPT ![tmp].next = this], head |-> hd]
          ELSE
            LET p1 == [ps EXCEPT ![this].next = tmp]
            IN  IF ps[tmp].prev # NULL
                  THEN [pools |-> [p1 EXCEPT ![this].prev = ps[tmp].prev,
                                             ![tmp].prev = this],
                        head |-> hd]
                  ELSE [pools |-> [p1 EXCEPT ![tmp].prev = this], head |-> this]

\* Lines 209-240: link pool `this` (already appended to ps with prev = next =
\* NULL) into the list; yields the new objects and the new head.
Insert(ps, hd, this) ==
  IF hd = NULL THEN [pools |-> ps, head |-> this]
  ELSE
    LET base == ps[this].base_frame_no
        tmp == InsertWalk(ps, hd, base)
    IN  IF ps[tmp].base_frame_no < base
          THEN \* insert after
            LET p1 == [ps EXCEPT ![this].prev = tmp, ![this].next = ps[tmp].next]
                p2 == IF ps[tmp].next # NULL
                        THEN [p1 EXCEPT ![ps[tmp].next].prev = this]
                        ELSE p1
            IN  [pools |-> [p2 EXCEPT ![tmp].next = this], head |-> hd]
          ELSE \* insert before
            LET p1 == [ps EXCEPT ![this].next = tmp]
            IN  IF ps[tmp].prev # NULL
                  THEN [pools |-> [p1 EXCEPT ![this].prev = ps[tmp].prev,
                                             ![ps[tmp].prev].next = this,
                                             ![tmp].prev = this],
                        head |-> hd]
                  ELSE [pools |-> [p1 EXCEPT ![tmp].prev = this], head |-> this]

\* Lines 248-250: for (fno = 0; fno < _n_frames; fno++) set_state(fno, Free)
RECURSIVE InitFree(_, _, _)
InitFree(bm, fno, _n_frames) ==
  IF fno < _n_frames
    THEN InitFree(set_state(bm, fno, "Free"), fno + 1, _n_frames)
    ELSE bm

\* The constructor reserving frame 0 before it frees every frame.
InitBitmap_ReserveFirst(raw, _n_frames, _info_frame_no) ==
  IF _info_frame_no = 0
    THEN InitFree(set_state(raw, 0, "HoS"), 0, _n_frames)
    ELSE InitFree(raw, 0, _n_frames)

\* Lines 248-254: the bitmap the constructor leaves in the info frame.
InitBitmap(raw, _n_frames, _info_frame_no) ==
  LET freed == InitFree(raw, 0, _n_frames)
  IN  IF _info_frame_no = 0 THEN set_state(freed, 0, "HoS") ELSE freed

\* -------------------------------------------------------- mark_inaccessible
\* The loop of mark_inaccessible running while i <= _n_frames.
RECURSIVE MarkUsed_OneMore(_, _, _, _)
MarkUsed_OneMore(bm, _base_frame_no, _n_frames, i) ==
  IF i <= _n_frames
    THEN MarkUsed_OneMore(set_state(bm, _base_frame_no + i, "Used"), _base_frame_no, _n_frames, i + 1)
    ELSE bm

\* Lines 302-304: for (i = 1; i < _n_frames; i++) set_state(base + i, Used)
RECURSIVE MarkUsed(_, _, _, _)
MarkUsed(bm, _base_frame_no, _n_frames, i) ==
  IF i < _n_frames
    THEN MarkUsed(set_state(bm, _base_frame_no + i, "Used"), _base_frame_no, _n_frames, i + 1)
    ELSE bm

\* mark_inaccessible setting every frame of the block to HeadOfSequence.
RECURSIVE MarkHeads(_, _, _, _)
MarkHeads(bm, _base_frame_no, _n_frames, i) ==
  IF i < _n_frames
    THEN MarkHeads(set_state(bm, _base_frame_no + i, "HoS"), _base_frame_no, _n_frames, i + 1)
    ELSE bm

mark_inaccessible_AllHeads(bm, _base_frame_no, _n_frames) ==
  MarkHeads(set_state(bm, _base_frame_no, "HoS"), _base_frame_no, _n_frames, 1)

mark_inaccessible(bm, _base_frame_no, _n_frames) ==
  MarkUsed(set_state(bm, _base_frame_no, "HoS"), _base_frame_no, _n_frames, 1)

\* --------------------------------------------------------------- get_frames
\* The inner loop looking at the first frame of the window only.
ScanWindow_FirstOnly(bm, start_frame, _n_frames, i) ==
  IF get_state(bm, start_frame) # "Free" THEN 0 ELSE _n_frames

\* The inner loop taking a HeadOfSequence frame for a Free one.
RECURSIVE ScanWindow_HeadsFree(_, _, _, _)
ScanWindow_HeadsFree(bm, start_frame, _n_frames, i) ==
  IF i < _n_frames
    THEN IF get_state(bm, start_frame + i) = "Used"
           THEN i
           ELSE ScanWindow_HeadsFree(bm, start_frame, _n_frames, i + 1)
    ELSE _n_frames

\* Lines 274-280: the index i of the first frame of the window that is not
\* Free, or _n_frames when the loop runs to its end.
RECURSIVE ScanWindow(_, _, _, _)
ScanWindow(bm, start_frame, _n_frames, i) ==
  IF i < _n_frames
    THEN IF get_state(bm, start_frame + i) # "Free"
           THEN i
           ELSE ScanWindow(bm, start_frame, _n_frames, i + 1)
    ELSE _n_frames

\* Line 277 as start_frame = start_frame + i.
NextStart_NoPlusOne(start_frame, _n_frames, i) == start_frame + i

\* The scan resuming a whole window further on.
NextStart_SkipWindow(start_frame, _n_frames, i) == start_frame + _n_frames

\* Line 277: start_frame = start_frame + i + 1
NextStart(start_frame, _n_frames, i) == start_frame + i + 1

\* The loop condition without its "- 1".
WindowInPool_NoMinusOne(start_frame, _n_frames, nframes) ==
  start_frame + _n_frames < nframes

\* Line 272: start_frame + _n_frames - 1 < nframes in unsigned arithmetic;
\* 0 + 0 - 1 wraps to the largest unsigned value, which no nframes exceeds.
WindowInPool(start_frame, _n_frames, nframes) ==
  IF start_frame + _n_frames = 0 THEN FALSE
  ELSE start_frame + _n_frames - 1 < nframes

\* Lines 271-286: the start of the window get_frames takes, or -1.
RECURSIVE FindStart(_, _, _, _)
FindStart(bm, nframes, _n_frames, start_frame) ==
  IF WindowInPool(start_frame, _n_frames, nframes)
    THEN LET i == ScanWindow(bm, start_frame, _n_frames, 0)
         IN  IF i = _n_frames
               THEN start_frame
               ELSE FindStart(bm, nframes, _n_frames, NextStart(start_frame, _n_frames, i))
    ELSE -1

\* The pool object after the call, and the value returned.
get_frames(P, _n_frames) ==
  LET start_frame == FindStart(P.bitmap, P.nframes, _n_frames, 0)
  IN  IF start_frame >= 0
        THEN [pool |-> [P EXCEPT !.bitmap = mark_inaccessible(P.bitmap, start_frame, _n_frames)],
              ret |-> start_frame + P.base_frame_no]
        ELSE [pool |-> P, ret |-> 0]

\* ----------------------------------------------------------- release_frames
\* release_frames freeing the head frame only.
ReleaseRun_HeadOnly(bm, fno, nframes) == bm

\* release_frames freeing every following frame that is not Free.
RECURSIVE ReleaseRun_ThroughHeads(_, _, _)
ReleaseRun_ThroughHeads(bm, fno, nframes) ==
  IF fno < nframes /\ get_state(bm, fno) # "Free"
    THEN ReleaseRun_ThroughHeads(set_state(bm, fno, "Free"), fno + 1, nframes)
    ELSE bm

\* Lines 323-327
RECURSIVE ReleaseRun(_, _, _)
ReleaseRun(bm, fno, nframes) ==
  IF fno < nframes /\ get_state(bm, fno) = "Used"
    THEN ReleaseRun(set_state(bm, fno, "Free"), fno + 1, nframes)
    ELSE bm

\* release_frames without the test for HeadOfSequence.
ReleaseIn_NoHeadCheck(P, rel_frame_no) ==
  ReleaseRun(set_state(P.bitmap, rel_frame_no, "Free"), rel_frame_no + 1, P.nframes)

\* Lines 321-332: the pool's bitmap after releasing relative frame rel_frame_no.
ReleaseIn(P, rel_frame_no) ==
  IF get_state(P.bitmap, rel_frame_no) = "HoS"
    THEN ReleaseRun(set_state(P.bitmap, rel_frame_no, "Free"), rel_frame_no + 1, P.nframes)
    ELSE P.bitmap

\* The range test of release_frames taking one frame too many.
LastFrameCheck_OffByOne(P, _first_frame_no) ==
  _first_frame_no <= P.base_frame_no + P.nframes

\* Line 319: _first_frame_no <= tmp->base_frame_no + tmp->nframes - 1
LastFrameCheck(P, _first_frame_no) ==
  _first_frame_no <= P.base_frame_no + P.nframes - 1

\* Lines 318-336: the walk over the registry from tmp.
RECURSIVE ReleaseWalk(_, _, _)
ReleaseWalk(ps, tmp, _first_frame_no) ==
  IF tmp # NULL /\ ps[tmp].base_frame_no <= _first_frame_no
    THEN IF LastFrameCheck(ps[tmp], _first_frame_no)
           THEN [ps EXCEPT ![tmp].bitmap =
                   ReleaseIn(ps[tmp], _first_frame_no - ps[tmp].base_frame_no)]
           ELSE ReleaseWalk(ps, ps[tmp].next, _first_frame_no)
    ELSE ps

release_frames(ps, hd, _first_frame_no) == ReleaseWalk(ps, hd, _first_frame_no)

\* ------------------------------------------------------------------ actions
Call(op, a, ret) == [op |-> op, a |-> a, ret |-> ret]

Bitmaps(ps) == [p \in 1..Len(ps) |-> ps[p].bitmap]

\* The info frame handed to the constructor of pool object `this` when the
\* bitmap is kept outside the pool: a frame of no pool, used by no other pool.
InfoFrame(this) == MaxFrame + this

NoHole == [p |-> 0, b |-> 0, n |-> 0]

IdleCall == [op |-> "idle"]

Init ==
  /\ pools = <<>>
  /\ head = NULL
  /\ last = Call("none", 0, 0)
  /\ fill \in GarbageBytes
  /\ phase = "setup"
  /\ held = {}
  /\ snap = <<>>
  /\ stray = FALSE
  /\ hole = NoHole
  /\ call = IdleCall

\* Lines 203-204: the two assertions of the constructor hold.
Accepts(_n_frames) ==
  /\ _n_frames <= (FRAME_SIZE * 8) \div 2
  /\ needed_info_frames(Word(_n_frames)) = 1

\* Lines 206-254: the pool objects and the head after the constructor has run
\* for a new pool object.
Constructed(_base_frame_no, _n_frames, _info_frame_no) ==
  LET this == Len(pools) + 1
      raw == [i \in 0..(BitmapBytes - 1) |-> fill]
      obj == [base_frame_no |-> _base_frame_no,
              nframes |-> _n_frames,
              info_frame_no |-> _info_frame_no,
              prev |-> NULL,
              next |-> NULL,
              bitmap |-> InitBitmap(raw, _n_frames, _info_frame_no)]
  IN  Insert(Append(pools, obj), head, this)

\* ContFramePool::ContFramePool(_base_frame_no, _n_frames, _info_frame_no).
\* The caller gives each pool frames of its own (no two pools overlap).
Construct(_base_frame_no, _n_frames, _info_frame_no) ==
  LET linked == Constructed(_base_frame_no, _n_frames, _info_frame_no)
  IN  /\ phase = "setup"
      /\ Len(pools) < MaxPools
      /\ Accepts(_n_frames)
      /\ \A q \in PoolIds :
           \/ _base_frame_no + _n_frames <= pools[q].base_frame_no
           \/ pools[q].base_frame_no + pools[q].nframes <= _base_frame_no
      /\ pools' = linked.pools
      /\ head' = linked.head
      /\ UNCHANGED <<last, fill, phase, held, snap, stray, hole, call>>

\* pool p: get_frames(_n_frames)
GetFrames(p, _n_frames) ==
  LET r == get_frames(pools[p], _n_frames)
  IN  /\ phase = "setup"
      /\ pools' = [pools EXCEPT ![p] = r.pool]
      /\ UNCHANGED <<head, last, fill, phase, held, snap, stray, hole, call>>

\* pool p: mark_inaccessible(_base_frame_no, _n_frames)
MarkInaccessible(p, _base_frame_no, _n_frames) ==
  /\ phase = "setup"
  /\ pools' = [pools EXCEPT ![p].bitmap =
                 mark_inaccessible(pools[p].bitmap, _base_frame_no, _n_frames)]
  /\ UNCHANGED <<head, last, fill, phase, held, snap, stray, hole, call>>

\* ContFramePool::release_frames(_first_frame_no), for any frame number
ReleaseFrames(_first_frame_no) ==
  /\ phase = "setup"
  /\ pools' = release_frames(pools, head, _first_frame_no)
  /\ stray' = TRUE
  /\ UNCHANGED <<head, last, fill, phase, held, snap, hole, call>>

\* A client that keeps what get_frames returns (kernel.C, test_memory and
\* test_max_space): it remembers the run when the result is not 0.
ClientGetFrames(p, _n_frames) ==
  LET r == get_frames(pools[p], _n_frames)
  IN  /\ pools' = [pools EXCEPT ![p] = r.pool]
      /\ last' = Call("get_frames", _n_frames, r.ret)
      /\ phase' = "client"
      /\ IF r.ret # 0
           THEN /\ held' = held \cup {[f |-> r.ret, n |-> _n_frames]}
                /\ snap' = IF phase = "setup" THEN Bitmaps(pools) ELSE snap
           ELSE /\ held' = held
                /\ snap' = IF r.pool # pools[p] THEN <<>>
                           ELSE IF phase = "setup" THEN Bitmaps(pools)
                           ELSE snap
      /\ UNCHANGED <<head, fill, stray, hole, call>>

\* The client releases a run it holds: release_frames(frame).
ClientReleaseFrames(run) ==
  /\ phase = "client"
  /\ run \in held
  /\ pools' = release_frames(pools, head, run.f)
  /\ last' = Call("release_frames", run.f, 0)
  /\ held' = held \ {run}
  /\ UNCHANGED <<head, fill, phase, snap, stray, hole, call>>

ConstructStep ==
  \E b \in 0..MaxFrame, n \in 0..MaxPoolFrames :
    /\ b + n - 1 <= MaxFrame
    /\ \E info \in {0, InfoFrame(Len(pools) + 1)} : Construct(b, n, info)

GetFramesStep ==
  \E p \in PoolIds : \E n \in 0..(pools[p].nframes + 1) : GetFrames(p, n)

MarkInaccessibleStep ==
  \E p \in PoolIds : \E b \in 0..(pools[p].nframes - 1), n \in 0..pools[p].nframes :
    /\ b + n <= pools[p].nframes
    /\ MarkInaccessible(p, b, n)

\* Frames any release_frames call may name.
AnyFrame == 0..(MaxFrame + 1)

ReleaseFramesStep == \E f \in AnyFrame : ReleaseFrames(f)

ClientGetFramesStep ==
  \E p \in PoolIds : \E n \in 1..pools[p].nframes : ClientGetFrames(p, n)

ClientReleaseFramesStep == \E run \in held : ClientReleaseFrames(run)

\* Any caller: every operation with any argument.
Next ==
  \/ ConstructStep
  \/ GetFramesStep
  \/ MarkInaccessibleStep
  \/ ReleaseFramesStep

Spec == Init /\ [][Next]_vars

\* Any caller sets the pools up; then a client allocates and releases only
\* what it was given.
NextClient ==
  \/ ConstructStep
  \/ GetFramesStep
  \/ MarkInaccessibleStep
  \/ ReleaseFramesStep
  \/ ClientGetFramesStep
  \/ ClientReleaseFramesStep

SpecClient == Init /\ [][NextClient]_vars

\* The memory hole of kernel.C: mark_inaccessible(_base_frame_no, _n_frames)
\* on frames of pool p that are all Free, at any time between the client's
\* calls.
HoleMark(p, _base_frame_no, _n_frames) ==
  /\ hole = NoHole
  /\ \A k \in _base_frame_no..(_base_frame_no + _n_frames - 1) :
       get_state(pools[p].bitmap, k) = "Free"
  /\ pools' = [pools EXCEPT ![p].bitmap =
                 mark_inaccessible(pools[p].bitmap, _base_frame_no, _n_frames)]
  /\ hole' = [p |-> p, b |-> _base_frame_no, n |-> _n_frames]
  /\ UNCHANGED <<head, last, fill, phase, held, snap, stray, call>>

HoleMarkStep ==
  \E p \in PoolIds : \E b \in 0..(pools[p].nframes - 1), n \in 1..pools[p].nframes :
    /\ b + n <= pools[p].nframes
    /\ HoleMark(p, b, n)

\* The pools are constructed; a hole is marked at some time; a client
\* allocates, and releases only what it was given.
NextHole ==
  \/ ConstructStep
  \/ HoleMarkStep
  \/ ClientGetFramesStep
  \/ ClientReleaseFramesStep

SpecHole == Init /\ [][NextHole]_vars

\* ---- get_frames and release_frames loop by loop
\* Lines 272-286, for the executing call c: one test of the while condition
\* and, when it holds, one window: the run is marked and the call returns, or
\* start_frame moves on; when it does not hold the call returns 0. Yields the
\* pool objects and the call afterwards.
GetFramesIter(c) ==
  LET P == pools[c.p]
      i == ScanWindow(P.bitmap, c.start_frame, c.n, 0)
  IN  IF WindowInPool(c.start_frame, c.n, P.nframes)
        THEN IF i = c.n
               THEN [pools |-> [pools EXCEPT ![c.p].bitmap =
                                  mark_inaccessible(P.bitmap, c.start_frame, c.n)],
                     call |-> IdleCall]
               ELSE [pools |-> pools,
                     call |-> [c EXCEPT !.start_frame = NextStart(c.start_frame, c.n, i)]]
        ELSE [pools |-> pools, call |-> IdleCall]

\* pool p: get_frames(_n_frames) is entered (line 271: start_frame = 0) and
\* runs up to the end of its first window.
CallGetFrames(p, _n_frames) ==
  LET r == GetFramesIter([op |-> "get_frames", p |-> p, n |-> _n_frames, start_frame |-> 0])
  IN  /\ call = IdleCall
      /\ pools' = r.pools
      /\ call' = r.call
      /\ UNCHANGED <<head, last, fill, phase, held, snap, stray, hole>>

\* The executing get_frames call runs one more window.
GetFramesWindow ==
  /\ call.op = "get_frames"
  /\ pools' = GetFramesIter(call).pools
  /\ call' = GetFramesIter(call).call
  /\ UNCHANGED <<head, last, fill, phase, held, snap, stray, hole>>

\* Lines 318-336, for the executing call c: one test of the outer while
\* condition and, when it holds, one pool: the frame is in it (its head is
\* freed and the run walk starts, or the call ends), or tmp moves to the next
\* pool.
ReleaseWalkIter(c) ==
  IF c.tmp # NULL /\ pools[c.tmp].base_frame_no <= c.f
    THEN IF LastFrameCheck(pools[c.tmp], c.f)
           THEN LET rel_frame_no == c.f - pools[c.tmp].base_frame_no
                IN  IF get_state(pools[c.tmp].bitmap, rel_frame_no) = "HoS"
                      THEN [pools |-> [pools EXCEPT ![c.tmp].bitmap =
                                         set_state(pools[c.tmp].bitmap, rel_frame_no, "Free")],
                            call |-> [op |-> "release_run", tmp |-> c.tmp,
                                      fno |-> rel_frame_no + 1]]
                      ELSE [pools |-> pools, call |-> IdleCall]
           ELSE [pools |-> pools, call |-> [c EXCEPT !.tmp = pools[c.tmp].next]]
    ELSE [pools |-> pools, call |-> IdleCall]

\* release_frames(_first_frame_no) is entered (line 317: tmp = head) and runs
\* up to the end of the first iteration of its registry walk.
CallReleaseFrames(_first_frame_no) ==
  LET r == ReleaseWalkIter([op |-> "release_frames", f |-> _first_frame_no, tmp |-> head])
  IN  /\ call = IdleCall
      /\ pools' = r.pools
      /\ call' = r.call
      /\ UNCHANGED <<head, last, fill, phase, held, snap, stray, hole>>

\* The executing release_frames call looks at one more pool.
ReleaseWalkStep ==
  /\ call.op = "release_frames"
  /\ pools' = ReleaseWalkIter(call).pools
  /\ call' = ReleaseWalkIter(call).call
  /\ UNCHANGED <<head, last, fill, phase, held, snap, stray, hole>>

\* Lines 324-327: one test of the inner while condition and, when it holds,
\* one frame freed; release_frames returns when it does not.
ReleaseRunStep ==
  /\ call.op = "release_run"
  /\ IF call.fno < pools[call.tmp].nframes
          /\ get_state(pools[call.tmp].bitmap, call.fno) = "Used"
       THEN /\ pools' = [pools EXCEPT ![call.tmp].bitmap =
                           set_state(pools[call.tmp].bitmap, call.fno, "Free")]
            /\ call' = [call EXCEPT !.fno = call.fno + 1]
       ELSE /\ call' = IdleCall
            /\ UNCHANGED pools
  /\ UNCHANGED <<head, last, fill, phase, held, snap, stray, hole>>

CallGetFramesStep ==
  \E p \in PoolIds : \E n \in 0..(pools[p].nframes + 1) : CallGetFrames(p, n)

CallReleaseFramesStep == \E f \in AnyFrame : CallReleaseFrames(f)

\* Pools are constructed and frames marked between calls; a call that was
\* entered runs loop by loop, and nothing else runs until it has returned
\* (one thread, no suspension inside the allocator).
NextTerm ==
  \/ (call = IdleCall /\ ConstructStep)
  \/ (call = IdleCall /\ MarkInaccessibleStep)
  \/ CallGetFramesStep
  \/ GetFramesWindow
  \/ CallReleaseFramesStep
  \/ ReleaseWalkStep
  \/ ReleaseRunStep

\* The processor keeps executing the call it is in: a loop iteration that can
\* run does run.
SpecTerm ==
  /\ Init
  /\ [][NextTerm]_vars
  /\ WF_vars(GetFramesWindow)
  /\ WF_vars(ReleaseWalkStep)
  /\ WF_vars(ReleaseRunStep)

\* Fresh pools and a client that only allocates (kernel.C,
\* test_multiple_allocations_and_contiguous_mem): no release, no mark.
NextAlloc ==
  \/ ConstructStep
  \/ ClientGetFramesStep

SpecAlloc == Init /\ [][NextAlloc]_vars

\* ContFramePool::ContFramePool(_base_frame_no, _n_frames, _info_frame_no)
\* with any range the constructor itself accepts: it has no test for frames
\* that belong to a registered pool already.
RegistryConstruct(_base_frame_no, _n_frames, _info_frame_no) ==
  LET linked == Constructed(_base_frame_no, _n_frames, _info_frame_no)
  IN  /\ Len(pools) < MaxRegistryPools
      /\ Accepts(_n_frames)
      /\ pools' = linked.pools
      /\ head' = linked.head
      /\ UNCHANGED <<last, fill, phase, held, snap, stray, hole, call>>

RegistryConstructStep ==
  \E b \in 0..MaxFrame, n \in 0..2 :
    /\ b + n - 1 <= MaxFrame
    /\ RegistryConstruct(b, n, InfoFrame(Len(pools) + 1))

\* Pools are constructed in any order of their base frames.
NextRegistry == RegistryConstructStep

SpecRegistry == Init /\ [][NextRegistry]_vars

\* Arguments of needed_info_frames: every value from 0 to MaxInfoArg, and
\* values around 2^31 and 2^32, where _n_frames * 2 and the sum leave 32 bits.
MaxInfoArg == 16400

InfoArgs ==
  {Word(n) : n \in 0..MaxInfoArg}
    \cup {[hi |-> h, lo |-> l] : h \in {1, 32767, 32768, 65535},
                               l \in {0, 1, 16384, 16385, 49152, 49153, 65535}}

\* A caller about to call needed_info_frames(w) (kernel.C, main and
\* test_needed_info_frames): no pool exists yet.
InitInfo ==
  /\ pools = <<>>
  /\ head = NULL
  /\ last \in {Call("none", w, 0) : w \in InfoArgs}
  /\ fill \in GarbageBytes
  /\ phase = "setup"
  /\ held = {}
  /\ snap = <<>>
  /\ stray = FALSE
  /\ hole = NoHole
  /\ call = IdleCall

\* ContFramePool::needed_info_frames(last.a)
NeededInfoFrames ==
  /\ last' = Call("needed_info_frames", last.a, needed_info_frames(last.a))
  /\ UNCHANGED <<pools, head, fill, phase, held, snap, stray, hole, call>>

NextInfo == NeededInfoFrames

SpecInfo == InitInfo /\ [][NextInfo]_vars

\* ------------------------------------------------------------------ claims
FREE == 0
USED == 1
HOS == 2

\* Entries of the modelled part of an info frame.
Entries == 0..(4 * BitmapBytes - 1)

FramesOf(p) == 0..(pools[p].nframes - 1)

\* Frames s .. s+n-1 of bitmap bm are all Free.
FitsAt(bm, s, n) == \A k \in s..(s + n - 1) : Field(bm, k) = FREE

\* The starts of the windows of n consecutive Free frames of a pool.
Fits(P, n) == {s \in 0..(P.nframes - n) : FitsAt(P.bitmap, s, n)}

MinOf(S) == CHOOSE s \in S : \A t \in S : s <= t

\* C1: in a pool constructed with info_frame_no = 0, relative frame 0 is
\* HeadOfSequence in every state reachable by get_frames, mark_inaccessible
\* and release_frames calls with any arguments.
C1_SelfReservation ==
  \A p \in PoolIds :
    pools[p].info_frame_no = 0 => Field(pools[p].bitmap, 0) = HOS

\* C2: for every Used frame k of a pool, the nearest lower frame that is not
\* Used exists and is HeadOfSequence.
C2_RunWellFormed ==
  \A p \in PoolIds : \A k \in FramesOf(p) :
    Field(pools[p].bitmap, k) = USED =>
      \E j \in 0..(k - 1) :
        /\ Field(pools[p].bitmap, j) = HOS
        /\ \A i \in (j + 1)..(k - 1) : Field(pools[p].bitmap, i) = USED

\* A run whose head follows a Free frame, in reach of a release: releasing the
\* run frees its Used frame too.
C2_Witness ==
  \E p \in PoolIds : \E k \in FramesOf(p) :
    /\ k >= 2
    /\ Field(pools[p].bitmap, k) = USED
    /\ Field(pools[p].bitmap, k - 1) = HOS
    /\ Field(pools[p].bitmap, k - 2) = FREE
    /\ LET after == release_frames(pools, head, pools[p].base_frame_no + k - 1)
       IN  Field(after[p].bitmap, k) = FREE

\* C3: every frame of every pool holds 0b00, 0b01 or 0b10, never 0b11.
C3_BitEncodingSound ==
  \A p \in PoolIds : \A k \in FramesOf(p) :
    Field(pools[p].bitmap, k) \in {FREE, USED, HOS}

\* A pool built in an info frame that held 0xFF everywhere, whose frames have
\* since been marked: all three states are present.
C3_Witness ==
  /\ fill = 255
  /\ \E p \in PoolIds :
       \A v \in {FREE, USED, HOS} : \E k \in FramesOf(p) : Field(pools[p].bitmap, k) = v

\* C4: when a window of n consecutive Free frames exists (1 <= n <= n_frames),
\* get_frames(n) returns base_frame_no + s for the smallest fitting s, makes
\* frame s HeadOfSequence and s+1 .. s+n-1 Used, and changes nothing else.
C4_FirstFit ==
  \A p \in PoolIds : \A n \in 1..pools[p].nframes :
    Fits(pools[p], n) # {} =>
      LET r == get_frames(pools[p], n)
          s == MinOf(Fits(pools[p], n))
      IN  /\ r.ret = pools[p].base_frame_no + s
          /\ \A k \in Entries :
               Field(r.pool.bitmap, k) =
                 IF k = s THEN HOS
                 ELSE IF k \in (s + 1)..(s + n - 1) THEN USED
                 ELSE Field(pools[p].bitmap, k)
          /\ r.pool = [pools[p] EXCEPT !.bitmap = r.pool.bitmap]

\* A pool whose lowest window of two Free frames lies above a Free frame (a
\* hole that is too small): get_frames(2) goes past the hole and returns it.
C4_Witness ==
  \E p \in PoolIds :
    /\ Fits(pools[p], 2) # {}
    /\ \E k \in 0..(MinOf(Fits(pools[p], 2)) - 1) : Field(pools[p].bitmap, k) = FREE
    /\ get_frames(pools[p], 2).ret = pools[p].base_frame_no + MinOf(Fits(pools[p], 2))

\* C5, as claimed: for every pool the constructor accepts and every n >= 1,
\* get_frames(n) returns 0 exactly when no window of n Free frames exists, and
\* then leaves the bitmap as it was.
C5_FailureSentinel ==
  \A p \in PoolIds : \A n \in 1..(pools[p].nframes + 1) :
    LET r == get_frames(pools[p], n)
    IN  /\ r.ret = 0 <=> Fits(pools[p], n) = {}
        /\ Fits(pools[p], n) = {} => r.pool = pools[p]

\* C5, amended: the same for every pool whose frames do not include frame 0
\* (base_frame_no >= 1); in particular get_frames(1) on a pool with no Free
\* frame returns 0.
C5_FailureSentinelAboveZero ==
  \A p \in PoolIds : \A n \in 1..(pools[p].nframes + 1) :
    pools[p].base_frame_no >= 1 =>
      LET r == get_frames(pools[p], n)
      IN  /\ r.ret = 0 <=> Fits(pools[p], n) = {}
          /\ Fits(pools[p], n) = {} => r.pool = pools[p]

\* A pool above frame 0 with Free frames but no two of them adjacent:
\* get_frames(2) returns 0, get_frames(1) does not.
C5_Witness ==
  \E p \in PoolIds :
    /\ pools[p].base_frame_no >= 1
    /\ Fits(pools[p], 1) # {}
    /\ Fits(pools[p], 2) = {}
    /\ get_frames(pools[p], 2).ret = 0
    /\ get_frames(pools[p], 1).ret # 0

\* Absolute frame numbers of the run [f, f + n).
RunFrames(run) == run.f..(run.f + run.n - 1)

\* The first frame of every pool that keeps its bitmap in it.
BitmapFrames == {pools[p].base_frame_no : p \in {q \in PoolIds : pools[q].info_frame_no = 0}}

\* C6: once the client has released every run its get_frames calls returned
\* (all results # 0), in whatever order, every bitmap is exactly what it was
\* before the first of those calls (so the same calls return the same frames).
C6_RoundTrip ==
  (phase = "client" /\ held = {} /\ snap # <<>>) => Bitmaps(pools) = snap

\* The client has just released the last run it held, in a pool where a run
\* set up before it started is still allocated above a frame the client had.
C6_Witness ==
  /\ phase = "client"
  /\ held = {}
  /\ snap # <<>>
  /\ last.op = "release_frames"
  /\ \E p \in PoolIds :
       /\ last.a > pools[p].base_frame_no
       /\ last.a + 1 < pools[p].base_frame_no + pools[p].nframes
       /\ Field(pools[p].bitmap, last.a - pools[p].base_frame_no) = FREE
       /\ Field(pools[p].bitmap, last.a + 1 - pools[p].base_frame_no) = HOS

\* C7: when the client has released only first frames it held, every run
\* get_frames hands it is disjoint from every run it still holds and contains
\* no frame that stores a pool's bitmap.
C7_NoDoubleAllocation ==
  [][(~stray' /\ phase' = "client" /\ last'.op = "get_frames" /\ last'.ret # 0) =>
       \E run \in held' \ held :
         /\ run.f = last'.ret
         /\ \A other \in held : RunFrames(run) \cap RunFrames(other) = {}
         /\ RunFrames(run) \cap BitmapFrames = {}]_vars

\* The client holds two runs of a pool that keeps its bitmap in its first
\* frame; get_frames has just handed it the lower one.
C7_Witness ==
  /\ ~stray
  /\ phase = "client"
  /\ last.op = "get_frames"
  /\ last.ret # 0
  /\ \E p \in PoolIds :
       /\ pools[p].info_frame_no = 0
       /\ \E r1, r2 \in held :
            /\ r1.f < r2.f
            /\ r1.f = last.ret
            /\ RunFrames(r1) \cup RunFrames(r2) \subseteq
                 pools[p].base_frame_no..(pools[p].base_frame_no + pools[p].nframes - 1)

\* C8: release_frames(f) with f in a pool, its frame there Used or Free,
\* leaves every pool as it was.
C8_ReleaseNonHeadNoOp ==
  \A f \in AnyFrame : \A p \in PoolIds :
    (InRange(p, f) /\ Field(pools[p].bitmap, f - pools[p].base_frame_no) \in {FREE, USED})
      => release_frames(pools, head, f) = pools

\* A Used frame of a run: release_frames of it leaves the pools as they are.
C8_Witness ==
  \E p \in PoolIds : \E k \in FramesOf(p) :
    /\ Field(pools[p].bitmap, k) = USED
    /\ release_frames(pools, head, pools[p].base_frame_no + k) = pools

\* C9: with pools of disjoint ranges, release_frames(f) with f in pool p acts
\* on relative frame f - base_frame_no of p (a HeadOfSequence there becomes
\* Free) and changes nothing of p but its bitmap and nothing of any other pool.
C9_ReleaseRouting ==
  \A f \in AnyFrame : \A p \in PoolIds :
    InRange(p, f) =>
      LET after == release_frames(pools, head, f)
          rel == f - pools[p].base_frame_no
      IN  /\ \A q \in PoolIds \ {p} : after[q] = pools[q]
          /\ after[p] = [pools[p] EXCEPT !.bitmap = after[p].bitmap]
          /\ Field(pools[p].bitmap, rel) = HOS => Field(after[p].bitmap, rel) = FREE
          /\ \A k \in 0..(rel - 1) : Field(after[p].bitmap, k) = Field(pools[p].bitmap, k)

\* Two pools with runs, the one of the higher frames constructed first:
\* release_frames of a head of the other one frees it there and leaves the
\* first pool alone.
C9_Witness ==
  /\ Len(pools) = 2
  /\ pools[1].base_frame_no > pools[2].base_frame_no
  /\ \E k \in FramesOf(1) : Field(pools[1].bitmap, k) = HOS
  /\ \E k \in FramesOf(2) :
       /\ Field(pools[2].bitmap, k) = HOS
       /\ LET after == release_frames(pools, head, pools[2].base_frame_no + k)
          IN  /\ Field(after[2].bitmap, k) = FREE
              /\ after[1] = pools[1]

\* C10: release_frames(f) with f in no pool's range changes no pool (neither
\* a bitmap nor a link of the registry).
C10_ReleaseUnowned ==
  \A f \in AnyFrame :
    (\A p \in PoolIds : ~InRange(p, f)) => release_frames(pools, head, f) = pools

\* Two pools with runs and a frame in the gap between them: release_frames
\* of that frame leaves the pools as they are.
C10_Witness ==
  /\ Len(pools) = 2
  /\ \A p \in PoolIds : \E k \in FramesOf(p) : Field(pools[p].bitmap, k) = HOS
  /\ \E f \in AnyFrame :
       /\ \A p \in PoolIds : ~InRange(p, f)
       /\ \E p, q \in PoolIds :
            /\ pools[p].base_frame_no + pools[p].nframes <= f
            /\ f < pools[q].base_frame_no
       /\ release_frames(pools, head, f) = pools

\* Absolute frame numbers of the memory hole.
HoleFrames ==
  (pools[hole.p].base_frame_no + hole.b)..(pools[hole.p].base_frame_no + hole.b + hole.n - 1)

\* The hole is as mark_inaccessible left it in bitmap bm of its pool.
HoleIntact(bm) ==
  /\ Field(bm, hole.b) = HOS
  /\ \A k \in (hole.b + 1)..(hole.b + hole.n - 1) : Field(bm, k) = USED

\* C11: once mark_inaccessible(b, n) has marked all-Free frames, whatever the
\* client allocates and releases (only first frames it was given, each once),
\* the frames of the hole stay HeadOfSequence/Used, no run the client holds
\* and no run a get_frames call would return overlaps the hole, and no
\* release of a held run frees a hole frame.
C11_HoleExcluded ==
  hole # NoHole =>
    /\ HoleIntact(pools[hole.p].bitmap)
    /\ \A run \in held :
         /\ RunFrames(run) \cap HoleFrames = {}
         /\ HoleIntact(release_frames(pools, head, run.f)[hole.p].bitmap)
    /\ \A n \in 1..pools[hole.p].nframes :
         LET r == get_frames(pools[hole.p], n)
         IN  /\ HoleIntact(r.pool.bitmap)
             /\ r.pool # pools[hole.p] =>
                  (r.ret..(r.ret + n - 1)) \cap HoleFrames = {}

\* The client holds a run that ends immediately before the hole and Free
\* frames lie beyond the hole: releasing the run frees it and stops at the
\* hole, and get_frames then allocates outside the hole.
C11_Witness ==
  /\ hole # NoHole
  /\ hole.n >= 2
  /\ \E run \in held :
       /\ run.f + run.n = pools[hole.p].base_frame_no + hole.b
       /\ LET after == release_frames(pools, head, run.f)
          IN  /\ Field(after[hole.p].bitmap, hole.b - 1) = FREE
              /\ HoleIntact(after[hole.p].bitmap)
              /\ get_frames(after[hole.p], 1).ret = run.f

\* The pools after pool p's mark_inaccessible(b, n) followed by
\* release_frames(b + base_frame_no).
MarkThenRelease(p, b, n) ==
  LET marked == [pools EXCEPT ![p].bitmap = mark_inaccessible(pools[p].bitmap, b, n)]
  IN  release_frames(marked, head, pools[p].base_frame_no + b)

\* C12: for any pool state and any b, n with n >= 1 and b + n <= n_frames,
\* mark_inaccessible(b, n) followed by release_frames(b + base_frame_no)
\* leaves the frames b .. b+n-1 Free, whatever they were before.
C12_MarkReleaseRoundTrip ==
  \A p \in PoolIds : \A b \in FramesOf(p), n \in 1..pools[p].nframes :
    b + n <= pools[p].nframes =>
      \A k \in b..(b + n - 1) : Field(MarkThenRelease(p, b, n)[p].bitmap, k) = FREE

\* A block of three frames holding a Free frame, a head and a Used frame
\* before the mark: after the mark and the release all three are Free.
C12_Witness ==
  \E p \in PoolIds : \E b \in FramesOf(p) :
    /\ b + 3 <= pools[p].nframes
    /\ Field(pools[p].bitmap, b) = FREE
    /\ Field(pools[p].bitmap, b + 1) = HOS
    /\ Field(pools[p].bitmap, b + 2) = USED
    /\ \A k \in b..(b + 2) : Field(MarkThenRelease(p, b, 3)[p].bitmap, k) = FREE

\* Pool p is as its constructor left it.
Fresh(p) ==
  pools[p].bitmap =
    InitBitmap([i \in 0..(BitmapBytes - 1) |-> fill], pools[p].nframes, pools[p].info_frame_no)

\* C13, as claimed: on every freshly constructed pool with info_frame_no = 0,
\* get_frames(n_frames) returns 0, and get_frames(n_frames - 1) succeeds and
\* returns base_frame_no + 1.
C13_SelfBackedBoundary ==
  \A p \in PoolIds :
    (pools[p].info_frame_no = 0 /\ Fresh(p)) =>
      /\ get_frames(pools[p], pools[p].nframes).ret = 0
      /\ get_frames(pools[p], pools[p].nframes - 1).ret = pools[p].base_frame_no + 1
      /\ get_frames(pools[p], pools[p].nframes - 1).pool # pools[p]

\* C13, amended: the same for pools of at least two frames.
C13_SelfBackedBoundaryTwoUp ==
  \A p \in PoolIds :
    (pools[p].info_frame_no = 0 /\ Fresh(p) /\ pools[p].nframes >= 2) =>
      /\ get_frames(pools[p], pools[p].nframes).ret = 0
      /\ get_frames(pools[p], pools[p].nframes - 1).ret = pools[p].base_frame_no + 1
      /\ get_frames(pools[p], pools[p].nframes - 1).pool # pools[p]

\* A fresh self-backed pool of at least three frames whose info frame held
\* 0xFF: all frames but the first are handed out as one run.
C13_Witness ==
  /\ fill = 255
  /\ \E p \in PoolIds :
       /\ pools[p].info_frame_no = 0
       /\ Fresh(p)
       /\ pools[p].nframes >= 3
       /\ get_frames(pools[p], pools[p].nframes).ret = 0
       /\ LET r == get_frames(pools[p], pools[p].nframes - 1)
          IN  /\ r.ret = pools[p].base_frame_no + 1
              /\ Field(r.pool.bitmap, 1) = HOS
              /\ Field(r.pool.bitmap, pools[p].nframes - 1) = USED

\* Arguments on both sides of every place where needed_info_frames changes
\* or its 32-bit arithmetic wraps.
InfoProbes ==
  {[hi |-> h, lo |-> l] : h \in {0, 1, 32767, 32768, 65535},
                          l \in {0, 1, 16384, 16385, 49152, 49153, 65535}}

\* C14, as claimed: needed_info_frames(n) = 1 for every n, 0 <= n <= 16384.
C14_OneInfoFrame ==
  (last.op = "needed_info_frames" /\ WordLeq(last.a, Word((FRAME_SIZE * 8) \div 2)))
    => last.ret = 1

\* C14, amended: needed_info_frames(n) = 1 for every n, 1 <= n <= 16384
\* (and needed_info_frames(0) = 0).
C14_OneInfoFrameFromOne ==
  (last.op = "needed_info_frames" /\ WordLeq(last.a, Word((FRAME_SIZE * 8) \div 2)))
    => last.ret = (IF last.a = Word(0) THEN 0 ELSE 1)

\* needed_info_frames(16384) has returned 1.
C14_Witness ==
  /\ last.op = "needed_info_frames"
  /\ last.a = Word((FRAME_SIZE * 8) \div 2)
  /\ last.ret = 1

\* C15: for all arguments a <= b, needed_info_frames(a) <= needed_info_frames(b).
C15_Monotone ==
  last.op = "needed_info_frames" =>
    \A a \in InfoProbes : WordLeq(a, last.a) => needed_info_frames(a) <= last.ret

\* C20: the two assertions of the constructor are the same condition: for
\* every n_frames, n_frames <= FRAME_SIZE*8/2 if and only if
\* needed_info_frames(n_frames) = 1.
C20_AssertionsEquivalent ==
  last.op = "needed_info_frames" =>
    (WordLeq(last.a, Word((FRAME_SIZE * 8) \div 2)) <=> last.ret = 1)

\* The pools met on the walk from tmp via next (at most fuel of them).
RECURSIVE ListFrom(_, _, _)
ListFrom(ps, tmp, fuel) ==
  IF tmp = NULL \/ fuel = 0 THEN <<>>
  ELSE <<tmp>> \o ListFrom(ps, ps[tmp].next, fuel - 1)

\* C16: after constructions in any order, the list walked from head via next
\* visits every constructed pool exactly once, in ascending order of
\* base_frame_no (pools given the same base frame stand next to each other),
\* and prev is the exact inverse of next.
C16_RegistrySorted ==
  LET w == ListFrom(pools, head, Len(pools) + 1)
  IN  /\ Len(w) = Len(pools)
      /\ {w[i] : i \in 1..Len(w)} = PoolIds
      /\ \A i \in 1..(Len(w) - 1) :
           pools[w[i]].base_frame_no <= pools[w[i + 1]].base_frame_no
      /\ \A i \in 1..Len(w) :
           /\ pools[w[i]].prev = (IF i = 1 THEN NULL ELSE w[i - 1])
           /\ pools[w[i]].next = (IF i = Len(w) THEN NULL ELSE w[i + 1])

\* Four pools of different base frames: the third was inserted between the
\* first two, the fourth before the head.
C16_Witness ==
  /\ Len(pools) = 4
  /\ pools[3].prev \in {1, 2}
  /\ pools[3].next \in {1, 2}
  /\ head = 4
  /\ \A p, q \in PoolIds : p # q => pools[p].base_frame_no # pools[q].base_frame_no

\* C17: the frame ranges of any two distinct registered pools do not overlap,
\* for every sequence of constructor calls the constructor accepts.
C17_RangeDisjoint ==
  \A p, q \in PoolIds :
    p # q =>
      \/ pools[p].base_frame_no + pools[p].nframes <= pools[q].base_frame_no
      \/ pools[q].base_frame_no + pools[q].nframes <= pools[p].base_frame_no

\* C18: when get_state reads the reserved pattern 0b11 it signals a fatal
\* failure and does not return Free, Used or HeadOfSequence.
C18_CorruptionDetected ==
  \A p \in PoolIds : \A k \in Entries :
    Field(pools[p].bitmap, k) = 3 =>
      get_state(pools[p].bitmap, k) \notin {"Free", "Used", "HoS"}

\* The runs the client holds in pool p.
HeldIn(p) == {run \in held : InRange(p, run.f)}

\* C19: from fresh pools, with get_frames calls only, every successful call on
\* a pool returns a first frame greater than all returned by that pool
\* before, and its run starts immediately after the end of the previous run.
C19_MonotoneAllocation ==
  [][\A p \in PoolIds :
       pools'[p].bitmap # pools[p].bitmap =>
         /\ last'.op = "get_frames"
         /\ \A run \in HeldIn(p) : run.f < last'.ret
         /\ HeldIn(p) # {} =>
              \E run \in HeldIn(p) :
                /\ \A other \in HeldIn(p) : other.f <= run.f
                /\ run.f + run.n = last'.ret]_vars

\* A pool that keeps its bitmap in its first frame has handed out a run of
\* two frames right after it and then the run that follows that one.
C19_Witness ==
  /\ last.op = "get_frames"
  /\ \E p \in PoolIds : \E r1, r2 \in HeldIn(p) :
       /\ pools[p].info_frame_no = 0
       /\ r1.f = pools[p].base_frame_no + 1
       /\ r1.n = 2
       /\ r2.f = r1.f + 2
       /\ last.ret = r2.f

\* C21: no operation on a pool (get_frames(n), mark_inaccessible(b, n) for
\* any b and n, release_frames) writes a frame state at a relative index
\* >= n_frames.
C21_RunsInsidePool ==
  \A p \in PoolIds : \A k \in Entries :
    k >= pools[p].nframes =>
      /\ \A n \in 0..(pools[p].nframes + 1) :
           Field(get_frames(pools[p], n).pool.bitmap, k) = Field(pools[p].bitmap, k)
      /\ \A f \in AnyFrame :
           Field(release_frames(pools, head, f)[p].bitmap, k) = Field(pools[p].bitmap, k)
      /\ \A b \in 0..pools[p].nframes, n \in 0..pools[p].nframes :
           Field(mark_inaccessible(pools[p].bitmap, b, n), k) = Field(pools[p].bitmap, k)

\* C22: for every n >= 0 and every b with b + n <= n_frames,
\* mark_inaccessible(b, n) makes b HeadOfSequence and b+1 .. b+n-1 Used,
\* whatever they were, and changes no frame outside [b, b + n); with n = 0 no
\* frame changes.
C22_MarkFrameEffect ==
  \A p \in PoolIds : \A b \in 0..pools[p].nframes, n \in 0..pools[p].nframes :
    b + n <= pools[p].nframes =>
      \A k \in Entries :
        Field(mark_inaccessible(pools[p].bitmap, b, n), k) =
          IF k = b /\ n >= 1 THEN HOS
          ELSE IF k \in (b + 1)..(b + n - 1) THEN USED
          ELSE Field(pools[p].bitmap, k)

\* C23: every get_frames(n) call and every release_frames(f) call that is
\* entered returns, for every pool state, every argument and every registry
\* the constructor built: at any moment the allocator is, or will again be,
\* outside every call.
C23_Terminates == []<>(call = IdleCall)

\* get_frames(1) has found two frames that are not Free, start_frame has
\* moved on twice and a third window is left, in the second pool of the
\* registry.
C23_Witness ==
  /\ call.op = "get_frames"
  /\ call.start_frame >= 2
  /\ call.n = 1
  /\ WindowInPool(call.start_frame, call.n, pools[call.p].nframes)
  /\ Len(pools) = 2
  /\ head # call.p

====
